---- MODULE Spec2Model ----
(***************************************************************************)
(* ASADataProcessor (USL-Championship-Soccer-Data.py): the enrichment      *)
(* pipeline fetch_data and its helpers, as a state machine over relations. *)
(*                                                                         *)
(* A relation (pandas DataFrame) is a record                               *)
(*     [cols: the set of column names, cat: the columns of category dtype, *)
(*      rows: a sequence of rows, each a function from cols to cells].     *)
(* A cell is a string, or an integer in the score and points columns.      *)
(* A missing value is the cell NaN; a list-valued cell is written as the   *)
(* text of the list, "[A,B]".  A raised exception is RaiseOf(its class)   *)
(* and a local variable that was never assigned is the value Unbound.      *)
(***************************************************************************)
EXTENDS Integers, Sequences, FiniteSets, TLC

(***************************************************************************)
(* Bounds of the checked instance.                                         *)
(***************************************************************************)
\* scores of a game range over 0..MaxScore
MaxScore == 2
\* a player's team list has at most MaxTeamsPerPlayer entries
MaxTeamsPerPlayer == 2
\* at most MaxFaults client faults (a raising call, a missing column) per run
MaxFaults == 2
\* the faults of a client that is called twice
MaxFaultsTwoCalls == 1

(***************************************************************************)
(* Class constants, lines 21-32.                                           *)
(***************************************************************************)
COMPETITION == "uslc"
DUPLICATE_SUFFIX == "_dup"
TEAM_ID == "team_id"
PLAYER_ID == "player_id"
STADIUM_ID == "stadium_id"
MANAGER_ID == "manager_id"
REFEREE_ID == "referee_id"
HOME_TEAM_ID == "home_team_id"
HOME_MANAGER_ID == "home_manager_id"
AWAY_TEAM_ID == "away_team_id"
AWAY_MANAGER_ID == "away_manager_id"
GAME_ID == "game_id"

(***************************************************************************)
(* Values.                                                                 *)
(***************************************************************************)
NaN == "NaN"
\* a raised exception, by its class
RaiseOf(kind) == [exc |-> kind]
ExceptionKinds == {"ClientError", "KeyError", "NameError", "TypeError", "ValueError"}
Unbound == [unbound |-> TRUE]
\* A relation has the set cols of its column labels, count[c] columns that
\* carry the label c, the set cat of its labels of category dtype, and its
\* rows.  A row has for a label that one column carries the cell of that
\* column, and for a label that several carry the tuple of their cells.
\* pd.DataFrame(): zero rows, no columns
EmptyDataFrame == [cols |-> {}, count |-> <<>>, cat |-> {}, rows |-> <<>>]
\* the labels of a Python list of labels, and how often it names one
Labels(list) == {list[i] : i \in 1..Len(list)}
Times(list, c) == Cardinality({i \in 1..Len(list) : list[i] = c})
\* the cells of the row r of T under the label c, one per column, and the
\* entry of a row for such cells
Cells(T, r, c) == IF T.count[c] = 1 THEN <<r[c]>> ELSE r[c]
Pack(cells) == IF Len(cells) = 1 THEN cells[1] ELSE cells
RECURSIVE Repeated(_, _)
Repeated(cells, n) == IF n = 0 THEN <<>> ELSE cells \o Repeated(cells, n - 1)
IsTable(t) == "cols" \in DOMAIN t
IsRaise(t) == "exc" \in DOMAIN t
\* what an operation on something that is no relation raises: the exception
\* it was handed, or NameError for a local variable never assigned
Bad(t) == IF IsRaise(t) THEN t ELSE RaiseOf("NameError")

\* the team ids a list cell may hold, and the lists of them: a player's team
\* list names each team once
TeamIds == {"A", "B", "C"}
RECURSIVE SeqsUpTo(_, _)
SeqsUpTo(S, n) ==
    IF n = 0 THEN {<<>>}
    ELSE LET shorter == SeqsUpTo(S, n - 1)
         IN  shorter \cup {Append(q, e) : q \in shorter, e \in S}
TeamLists ==
    {q \in SeqsUpTo(TeamIds, MaxTeamsPerPlayer) :
        \A i, j \in 1..Len(q) : q[i] = q[j] => i = j}
RECURSIVE Joined(_)
Joined(q) ==
    IF q = <<>> THEN ""
    ELSE IF Len(q) = 1 THEN q[1]
    ELSE q[1] \o "," \o Joined(Tail(q))
\* the cell that holds the Python list q
ListCell(q) == "[" \o Joined(q) \o "]"
\* isinstance(x, list)
ListCells == {ListCell(q) : q \in TeamLists}
IsList(x) == x \in ListCells
ListElems(x) == CHOOSE q \in TeamLists : ListCell(q) = x

(***************************************************************************)
(* Column lists of the source, and the columns of the relations the ASA    *)
(* client returns when it is well (the client is outside the repository;  *)
(* its relations are the inputs of the pipeline).                          *)
(***************************************************************************)
\* lines 207-218
TeamsColumns ==
    <<"team_id", "team_name", "team_short_name", "team_abbreviation", "competition", "minutes", "data",
     "count_games", "shots_for", "shots_against", "goals_for", "goals_against", "goal_difference",
     "xgoals_for", "xgoals_against", "xgoal_difference", "goal_difference_minus_xgoal_difference",
     "points", "xpoints", "attempted_passes_for", "pass_completion_percentage_for",
     "xpass_completion_percentage_for", "passes_completed_over_expected_for",
     "passes_completed_over_expected_p100_for", "avg_vertical_distance_for",
     "attempted_passes_against", "pass_completion_percentage_against",
     "xpass_completion_percentage_against", "passes_completed_over_expected_against",
     "passes_completed_over_expected_p100_against", "avg_vertical_distance_against",
     "passes_completed_over_expected_difference", "avg_vertical_distance_diff">>
\* line 160
ExpectedColumns == {"avg_vertical_distance_diff"}
\* lines 303-312
PlayersColumns ==
    <<"player_id", "player_name", "birth_date", "nationality", "height_ft", "height_in", "weight_lb",
     "primary_broad_position", "primary_general_position", "secondary_broad_position",
     "secondary_general_position", "team_id", "team_name", "season_name", "competition",
     "general_position", "minutes_played", "shots", "shots_on_target", "goals", "xgoals", "xplace",
     "goals_minus_xgoals", "key_passes", "primary_assists", "xassists",
     "primary_assists_minus_xassists", "xgoals_plus_xassists", "points_added", "xpoints_added",
     "attempted_passes", "pass_completion_percentage", "xpass_completion_percentage",
     "passes_completed_over_expected", "passes_completed_over_expected_p100", "avg_distance_yds",
     "avg_vertical_distance_yds", "share_team_touches", "count_games", "data">>
\* lines 289-293
PlayersCategorical ==
    <<"nationality", "primary_broad_position", "primary_general_position",
      "secondary_broad_position", "secondary_general_position">>
\* lines 325-336
GoalkeepersColumns ==
    PlayersColumns \o
    <<"minutes_played", "shots_faced", "goals_conceded", "saves", "share_headed_shots",
      "xgoals_gk_faced", "goals_minus_xgoals_gk", "goals_divided_by_xgoals_gk">>
\* lines 377-386
GamesColumns ==
    <<"game_id", "date_time_utc", "season_name", "matchday", "match_name", "attendance", "knockout_game",
     "extra_time", "penalties", "home_penalties", "away_penalties", "expanded_minutes", "home_team_id",
     "team_name_home", "team_abbreviation_home", "away_team_id", "team_name_away",
     "team_abbreviation_away", "home_score", "away_score", "home_goals", "away_goals",
     "home_team_xgoals", "away_team_xgoals", "home_player_xgoals", "away_player_xgoals",
     "goal_difference", "team_xgoal_difference", "player_xgoal_difference", "final_score_difference",
     "home_xpoints", "away_xpoints", "result_home", "points_home", "result_away", "points_away",
     "referee_id", "referee_name", "stadium_id", "stadium_name", "home_manager_id",
     "manager_name_home", "away_manager_id", "manager_name_away">>
\* line 371
GamesDropped == {"date_time_utc_xG", "home_team_id_xG", "away_team_id_xG", "last_updated_utc"}
\* lines 392-401
DataKeys ==
    {"games", "players", "field_players", "goalkeepers", "teams", "stadium", "mgrs", "refs"}

\* the client's relations, by the attribute or method that returns them
ClientColumns ==
    [players |->
        {"player_id", "player_name", "birth_date", "nationality", "height_ft", "height_in",
         "weight_lb", "primary_broad_position", "primary_general_position",
         "secondary_broad_position", "secondary_general_position", "season_name", "competition"},
     teams |-> {"team_id", "team_name", "team_short_name", "team_abbreviation", "competition"},
     stadia |-> {"stadium_id", "stadium_name", "competition"},
     managers |-> {"manager_id", "manager_name", "competition"},
     get_referees |-> {"referee_id", "referee_name"},
     get_team_goals_added |-> {"team_id", "minutes", "data"},
     get_team_xgoals |->
        {"team_id", "count_games", "shots_for", "shots_against", "goals_for", "goals_against",
         "goal_difference", "xgoals_for", "xgoals_against", "xgoal_difference",
         "goal_difference_minus_xgoal_difference", "points", "xpoints"},
     get_team_xpass |->
        {"team_id", "attempted_passes_for", "pass_completion_percentage_for",
         "xpass_completion_percentage_for", "passes_completed_over_expected_for",
         "passes_completed_over_expected_p100_for", "avg_vertical_distance_for",
         "attempted_passes_against", "pass_completion_percentage_against",
         "xpass_completion_percentage_against", "passes_completed_over_expected_against",
         "passes_completed_over_expected_p100_against", "avg_vertical_distance_against",
         "passes_completed_over_expected_difference", "avg_vertical_distance_difference"},
     get_goalkeeper_xgoals |->
        {"player_id", "team_id", "minutes_played", "shots_faced", "goals_conceded", "saves",
         "share_headed_shots", "xgoals_gk_faced", "goals_minus_xgoals_gk",
         "goals_divided_by_xgoals_gk"},
     get_goalkeeper_goals_added |-> {"player_id", "team_id", "minutes_played", "data"},
     get_player_goals_added |->
        {"player_id", "team_id", "general_position", "minutes_played", "data"},
     get_player_xgoals |->
        {"player_id", "team_id", "general_position", "minutes_played", "shots", "shots_on_target",
         "goals", "xgoals", "xplace", "goals_minus_xgoals", "key_passes", "primary_assists",
         "xassists", "primary_assists_minus_xassists", "xgoals_plus_xassists", "points_added",
         "xpoints_added"},
     get_player_xpass |->
        {"player_id", "team_id", "general_position", "minutes_played", "attempted_passes",
         "pass_completion_percentage", "xpass_completion_percentage",
         "passes_completed_over_expected", "passes_completed_over_expected_p100",
         "avg_distance_yds", "avg_vertical_distance_yds", "share_team_touches", "count_games"},
     get_games |->
        {"game_id", "date_time_utc", "home_score", "away_score", "home_team_id", "away_team_id",
         "referee_id", "stadium_id", "home_manager_id", "away_manager_id", "expanded_minutes",
         "season_name", "matchday", "attendance", "knockout_game", "last_updated_utc",
         "extra_time", "penalties", "home_penalties", "away_penalties"},
     get_game_xgoals |->
        {"game_id", "date_time_utc", "home_team_id", "home_goals", "home_team_xgoals",
         "home_player_xgoals", "away_team_id", "away_goals", "away_team_xgoals",
         "away_player_xgoals", "goal_difference", "team_xgoal_difference",
         "player_xgoal_difference", "final_score_difference", "home_xpoints", "away_xpoints"}]
ClientCalls == DOMAIN ClientColumns

\* every column name the pipeline can meet, before suffixes
ColumnNames ==
    UNION {ClientColumns[c] : c \in ClientCalls} \cup Labels(TeamsColumns)
        \cup Labels(GoalkeepersColumns) \cup Labels(GamesColumns)
\* the names that end with DUPLICATE_SUFFIX
DupNames == {c \o DUPLICATE_SUFFIX : c \in ColumnNames}
\* col.endswith(self.DUPLICATE_SUFFIX)
EndsWithDup(c) == c \in DupNames

(***************************************************************************)
(* The pandas operations the pipeline uses.  Each returns a relation, or   *)
(* the exception pandas raises (KeyError for a missing column, NameError   *)
(* for an operand that is Unbound).                                        *)
(***************************************************************************)
RECURSIVE FlatMap(_, _, _)
\* the concatenation of f(rows[i]) for i = k..Len(rows)
FlatMap(rows, f(_), k) ==
    IF k > Len(rows) THEN <<>> ELSE f(rows[k]) \o FlatMap(rows, f, k + 1)

\* left.merge(right, left_on=lon, right_on=ron, how=how, suffixes=(sl, sr)).
\* A label that both sides have (but for the key of on=) gets the suffix of
\* its side; a label that then comes from both sides, as X_dup from the
\* left and X renamed to X_dup from the right, is carried by the columns of
\* both.
Merge(L, R, lon, ron, how, sl, sr) ==
    IF ~IsTable(L) THEN Bad(L)
    ELSE IF ~IsTable(R) THEN Bad(R)
    ELSE IF lon \notin L.cols \/ ron \notin R.cols THEN RaiseOf("KeyError")
    ELSE LET rkeep == IF lon = ron THEN R.cols \ {ron} ELSE R.cols
             overlap == L.cols \cap rkeep
             lname(c) == IF c \in overlap THEN c \o sl ELSE c
             rname(c) == IF c \in overlap THEN c \o sr ELSE c
             lcols == {lname(c) : c \in L.cols}
             rcols == {rname(c) : c \in rkeep}
             cols == lcols \cup rcols
             lsrc(n) == IF n \in L.cols /\ n \notin overlap THEN n
                        ELSE CHOOSE c \in L.cols : lname(c) = n
             rsrc(n) == IF n \in rkeep /\ n \notin overlap THEN n
                        ELSE CHOOSE c \in rkeep : rname(c) = n
             lcount(n) == IF n \in lcols THEN L.count[lsrc(n)] ELSE 0
             rcount(n) == IF n \in rcols THEN R.count[rsrc(n)] ELSE 0
             lcells(l, n) == IF n \in lcols THEN Cells(L, l, lsrc(n)) ELSE <<>>
             rcells(r, n) == IF n \in rcols THEN Cells(R, r, rsrc(n)) ELSE <<>>
             joined(l, r) == [n \in cols |-> Pack(lcells(l, n) \o rcells(r, n))]
             lonely(l) == [n \in cols |-> Pack(lcells(l, n) \o Repeated(<<NaN>>, rcount(n)))]
             expand(l) ==
                 LET m == SelectSeq(R.rows, LAMBDA r : r[ron] = l[lon])
                 IN  IF m = <<>>
                     THEN IF how = "left" THEN <<lonely(l)>> ELSE <<>>
                     ELSE [i \in 1..Len(m) |-> joined(l, m[i])]
         IN  [cols |-> cols,
              count |-> [n \in cols |-> lcount(n) + rcount(n)],
              cat |-> {lname(c) : c \in L.cat} \cup {rname(c) : c \in R.cat \cap rkeep},
              rows |-> FlatMap(L.rows, expand, 1)]

\* df[[...]] for a list of labels: a column for every entry of the list (a
\* label named twice gives its column twice), KeyError when one is missing
SelectColumns(T, list) ==
    IF ~IsTable(T) THEN Bad(T)
    ELSE IF ~(Labels(list) \subseteq T.cols) THEN RaiseOf("KeyError")
    ELSE LET wanted == Labels(list)
         IN  [cols |-> wanted,
              count |-> [c \in wanted |-> Times(list, c) * T.count[c]],
              cat |-> T.cat \cap wanted,
              rows |-> [i \in 1..Len(T.rows) |->
                          [c \in wanted |-> Pack(Repeated(Cells(T, T.rows[i], c),
                                                          Times(list, c)))]]]

\* the columns of T whose label is in kept, each as often as T has it
KeepColumns(T, kept) ==
    [cols |-> kept, count |-> [c \in kept |-> T.count[c]], cat |-> T.cat \cap kept,
     rows |-> [i \in 1..Len(T.rows) |-> [c \in kept |-> T.rows[i][c]]]]

\* df.drop(columns=[...]): KeyError when a listed column is missing
DropColumns(T, unwanted) ==
    IF ~IsTable(T) THEN Bad(T)
    ELSE IF ~(unwanted \subseteq T.cols) THEN RaiseOf("KeyError")
    ELSE KeepColumns(T, T.cols \ unwanted)

\* df[[c for c in df.columns if not c.endswith('_dup')]]
WithoutDupColumns(T) ==
    IF ~IsTable(T) THEN Bad(T) ELSE KeepColumns(T, {c \in T.cols : ~EndsWithDup(c)})

\* df[df[col] == value]
RowsEqual(T, col, value) ==
    IF ~IsTable(T) THEN Bad(T)
    ELSE IF col \notin T.cols THEN RaiseOf("KeyError")
    ELSE [T EXCEPT !.rows = SelectSeq(T.rows, LAMBDA r : r[col] = value)]

\* df[df[col] != value]   (a missing cell differs from every value)
RowsNotEqual(T, col, value) ==
    IF ~IsTable(T) THEN Bad(T)
    ELSE IF col \notin T.cols THEN RaiseOf("KeyError")
    ELSE [T EXCEPT !.rows = SelectSeq(T.rows, LAMBDA r : r[col] # value)]

\* df[col] = df[col].astype('category')
AsCategory(T, col) ==
    IF ~IsTable(T) THEN Bad(T)
    ELSE IF col \notin T.cols THEN RaiseOf("KeyError")
    ELSE [T EXCEPT !.cat = T.cat \cup {col}]

\* df[col] = value, for a scalar value
SetColumn(T, col, value) ==
    [cols |-> T.cols \cup {col},
     count |-> [c \in T.cols \cup {col} |-> IF c \in T.cols THEN T.count[c] ELSE 1],
     cat |-> T.cat \ {col},
     rows |-> [i \in 1..Len(T.rows) |->
                 [c \in T.cols \cup {col} |-> IF c = col THEN value ELSE T.rows[i][c]]]]

\* an expansion that keeps the first element of a list cell only
ExplodeFirstOnly(T, col) ==
    IF ~IsTable(T) THEN Bad(T)
    ELSE IF col \notin T.cols THEN RaiseOf("KeyError")
    ELSE LET expand(r) ==
                 IF ~IsList(r[col]) THEN <<r>>
                 ELSE LET q == ListElems(r[col])
                      IN  IF q = <<>> THEN <<[r EXCEPT ![col] = NaN]>>
                          ELSE <<[r EXCEPT ![col] = q[1]]>>
         IN  [T EXCEPT !.rows = FlatMap(T.rows, expand, 1)]

\* df.explode(col): one row per element of a list cell, one row with a
\* missing cell for an empty list, other cells unchanged
Explode(T, col) ==
    IF ~IsTable(T) THEN Bad(T)
    ELSE IF col \notin T.cols THEN RaiseOf("KeyError")
    ELSE LET expand(r) ==
                 IF ~IsList(r[col]) THEN <<r>>
                 ELSE LET q == ListElems(r[col])
                      IN  IF q = <<>> THEN <<[r EXCEPT ![col] = NaN]>>
                          ELSE [i \in 1..Len(q) |-> [r EXCEPT ![col] = q[i]]]
         IN  [T EXCEPT !.rows = FlatMap(T.rows, expand, 1)]

(***************************************************************************)
(* The helpers of ASADataProcessor.                                        *)
(***************************************************************************)
\* a comparison that counts equal scores as a win
ResultWithEqualAsWin(row) ==
    IF row["home_score"] >= row["away_score"] THEN "win"
    ELSE IF row["home_score"] < row["away_score"] THEN "loss"
    ELSE "draw"

\* calculate_result, lines 43-55
calculate_result(row) ==
    IF row["home_score"] > row["away_score"] THEN "win"
    ELSE IF row["home_score"] < row["away_score"] THEN "loss"
    ELSE "draw"

\* calculate_points, lines 57-67
calculate_points(result) ==
    IF result = "win" THEN 3 ELSE IF result = "draw" THEN 1 ELSE 0

\* an away result copied from the home result
SameResult(x) == x

\* the lambda of line 355
away_result(x) ==
    IF x = "loss" THEN "win" ELSE IF x = "win" THEN "loss" ELSE "draw"

\* add_player_names, lines 69-80
add_player_names(df, players_df) ==
    Merge(df, SelectColumns(players_df, <<PLAYER_ID, "player_name">>),
          PLAYER_ID, PLAYER_ID, "left", "_x", "_y")

\* the columns of the team table that add_team_names merges in, lines 95, 98
TeamNameColumns == <<TEAM_ID, "team_name">>

\* add_team_names, lines 82-98
add_team_names(df, teams_df) ==
    IF ~IsTable(df) THEN Bad(df)
    ELSE IF TEAM_ID \in df.cols /\ \E i \in 1..Len(df.rows) : IsList(df.rows[i][TEAM_ID])
    THEN Merge(Explode(df, TEAM_ID), SelectColumns(teams_df, TeamNameColumns),
               TEAM_ID, TEAM_ID, "left", "_x", "_y")
    ELSE Merge(df, SelectColumns(teams_df, TeamNameColumns),
               TEAM_ID, TEAM_ID, "left", "_x", "_y")

\* add_stadium_names, lines 100-111
add_stadium_names(df, stadium_df) ==
    Merge(df, SelectColumns(stadium_df, <<STADIUM_ID, "stadium_name">>),
          STADIUM_ID, STADIUM_ID, "left", "_x", "_y")

\* add_manager_names, lines 113-124
add_manager_names(df, managers_df) ==
    Merge(df, SelectColumns(managers_df, <<MANAGER_ID, "manager_name">>),
          MANAGER_ID, MANAGER_ID, "left", "_x", "_y")

\* add_referee_names, lines 126-137
add_referee_names(df, referees_df) ==
    Merge(df, SelectColumns(referees_df, <<REFEREE_ID, "referee_name">>),
          REFEREE_ID, REFEREE_ID, "left", "_x", "_y")

\* the columns line 156 (157, 158) drops after merging into teams: those of
\* the table as it was before the merge that end with the duplicate suffix
ColumnsToDrop(teams, merged) == {col \in teams.cols : EndsWithDup(col)}

\* one of the merges of lines 156-158
MergeStatistic(teams, statistic) ==
    LET merged == Merge(teams, statistic, TEAM_ID, TEAM_ID, "left", "", DUPLICATE_SUFFIX)
    IN  IF IsRaise(merged) THEN merged
        ELSE DropColumns(merged, ColumnsToDrop(teams, merged))

\* lines 160-163: every expected column exists, 0 where it was absent
RECURSIVE WithExpectedColumns(_, _)
WithExpectedColumns(teams, expected) ==
    IF expected = {} THEN teams
    ELSE LET col == CHOOSE c \in expected : TRUE
             rest == WithExpectedColumns(teams, expected \ {col})
         IN  IF col \in rest.cols THEN rest ELSE SetColumn(rest, col, 0)

(***************************************************************************)
(* The client: what each attribute or method of the ASA client yields in   *)
(* a run, a relation or a raised exception.  A world gives the games, the  *)
(* players and the extra columns of the statistic relations; a fault makes *)
(* a call raise or takes a column away from its relation.                  *)
(***************************************************************************)
Row(cols, vals) == [c \in cols |-> IF c \in DOMAIN vals THEN vals[c] ELSE "v"]
Relation(cols, vals) ==
    [cols |-> cols, count |-> [c \in cols |-> 1], cat |-> {},
     rows |-> [i \in 1..Len(vals) |-> Row(cols, vals[i])]]

TeamRows ==
    <<[team_id |-> "A", team_name |-> "Team A", team_abbreviation |-> "TA", competition |-> "uslc"],
      [team_id |-> "B", team_name |-> "Team B", team_abbreviation |-> "TB", competition |-> "uslc"],
      [team_id |-> "C", team_name |-> "Team C", team_abbreviation |-> "TC", competition |-> "uslc"],
      [team_id |-> "Z", team_name |-> "Team Z", team_abbreviation |-> "TZ", competition |-> "mls"]>>
StadiumRows ==
    <<[stadium_id |-> "s1", stadium_name |-> "Stadium 1", competition |-> "uslc"],
      [stadium_id |-> "s2", stadium_name |-> "Stadium 2", competition |-> "mls"]>>
ManagerRows ==
    <<[manager_id |-> "m1", manager_name |-> "Manager 1", competition |-> "uslc"],
      [manager_id |-> "m2", manager_name |-> "Manager 2", competition |-> "uslc"],
      [manager_id |-> "m3", manager_name |-> "Manager 3", competition |-> "mls"]>>
RefereeRows == <<[referee_id |-> "r1", referee_name |-> "Referee 1"]>>
TeamStatisticRows == <<[team_id |-> "A"], [team_id |-> "B"], [team_id |-> "C"]>>

\* a game of the world, home team ht against away team at
Game(id, ht, at, hs, as, st, ref, hm, am) ==
    [game_id |-> id, home_team_id |-> ht, away_team_id |-> at, home_score |-> hs,
     away_score |-> as, stadium_id |-> st, referee_id |-> ref, home_manager_id |-> hm,
     away_manager_id |-> am]
\* a player of the world: position, and the team list of the statistic
\* relations ("none": the player has no row in them)
Player(id, pos, teamList) == [id |-> id, pos |-> pos, teams |-> teamList]

PlayerDimRows(w) ==
    [i \in 1..Len(w.players) |->
        [player_id |-> w.players[i].id, player_name |-> "Name " \o w.players[i].id,
         primary_broad_position |-> w.players[i].pos, competition |-> "uslc"]]
    \o <<[player_id |-> "p9", player_name |-> "Name p9", primary_broad_position |-> "GK",
          competition |-> "mls"]>>
PlayerStatisticRows(w) ==
    LET with == SelectSeq(w.players, LAMBDA q : q.teams # "none")
    IN  [i \in 1..Len(with) |-> [player_id |-> with[i].id, team_id |-> with[i].teams]]
GoalkeeperStatisticRows(w) ==
    LET gks == SelectSeq(w.players, LAMBDA q : q.pos = "GK")
    IN  [i \in 1..Len(gks) |->
            [player_id |-> gks[i].id,
             team_id |-> IF gks[i].teams = "none" THEN ListCell(<<"A">>) ELSE gks[i].teams]]
GameStatisticRows(w) == [i \in 1..Len(w.games) |-> [game_id |-> w.games[i].game_id]]

RowsOf(w, call) ==
    CASE call = "players" -> PlayerDimRows(w)
      [] call = "teams" -> TeamRows
      [] call = "stadia" -> StadiumRows
      [] call = "managers" -> ManagerRows
      [] call = "get_referees" -> RefereeRows
      [] call \in {"get_team_goals_added", "get_team_xgoals", "get_team_xpass"} -> TeamStatisticRows
      [] call \in {"get_goalkeeper_xgoals", "get_goalkeeper_goals_added"} -> GoalkeeperStatisticRows(w)
      [] call \in {"get_player_goals_added", "get_player_xgoals", "get_player_xpass"} ->
            PlayerStatisticRows(w)
      [] call = "get_games" -> w.games
      [] call = "get_game_xgoals" -> GameStatisticRows(w)

Raises(call) == [kind |-> "raise", call |-> call, col |-> ""]
Lacks(call, col) == [kind |-> "lack", call |-> call, col |-> col]

Client(w, faults) ==
    [call \in ClientCalls |->
        IF Raises(call) \in faults THEN RaiseOf("ClientError")
        ELSE LET extra == IF call \in DOMAIN w.extra THEN w.extra[call] ELSE {}
                 lacking == {f.col : f \in {g \in faults : g.kind = "lack" /\ g.call = call}}
             IN  Relation((ClientColumns[call] \cup extra) \ lacking, RowsOf(w, call))]

(***************************************************************************)
(* The runs that are checked: the worlds and the faults of a client.       *)
(***************************************************************************)
Positions == {"GK", "FW", NaN}
Scores == 0..MaxScore

BaseGame == Game("g1", "A", "B", 2, 1, "s1", "r1", "m1", "m2")
BasePlayers ==
    <<Player("p1", "GK", ListCell(<<"A">>)), Player("p2", "FW", ListCell(<<"A", "B">>))>>
BaseWorld == [games |-> <<BaseGame>>, players |-> BasePlayers, extra |-> <<>>]

\* two games with every score; a second game with a reference that no
\* dimension row of the competition answers; no game at all
GamesWorlds ==
    {[BaseWorld EXCEPT !.games =
        <<Game("g1", "A", "B", h1, a1, "s1", "r1", "m1", "m2"),
          Game("g2", "B", "A", h2, a2, "s1", "r1", "m2", "m1")>>] :
        h1 \in Scores, a1 \in Scores, h2 \in Scores, a2 \in Scores}
    \cup {[BaseWorld EXCEPT !.games = <<BaseGame, g>>] :
            g \in {Game("g2", "B", "A", 0, 0, "s9", "r1", "m2", "m1"),
                   Game("g2", "B", "A", 0, 0, "s1", "r9", "m2", "m1"),
                   Game("g2", "Z", "A", 0, 0, "s1", "r1", "m2", "m1"),
                   Game("g2", "B", "Z", 0, 0, "s1", "r1", "m2", "m1"),
                   Game("g2", "B", "A", 0, 0, "s1", "r1", "m3", "m1"),
                   Game("g2", "B", "A", 0, 0, "s1", "r1", "m2", "m3")}}
    \cup {[BaseWorld EXCEPT !.games = <<>>]}

\* the first player with every position and every team list, the second
\* with every position
PlayersWorlds ==
    {[BaseWorld EXCEPT !.players =
        <<Player("p1", pos1, teams1), Player("p2", pos2, ListCell(<<"B">>))>>] :
        pos1 \in Positions, teams1 \in ListCells \cup {"none"}, pos2 \in Positions}

\* statistic relations that share column names with the team table
\* (team_name) or with each other (count_games)
StatisticsWorlds ==
    {[BaseWorld EXCEPT !.extra =
        [get_team_goals_added |-> e1, get_team_xgoals |-> e2, get_team_xpass |-> e3]] :
        e1 \in SUBSET {"team_name", "count_games"}, e2 \in SUBSET {"team_name"},
        e3 \in SUBSET {"team_name", "count_games", "avg_vertical_distance_diff"}}

\* the columns a faulty client relation may lack
LackChoices ==
    {Lacks("players", "competition"), Lacks("players", "player_name"),
     Lacks("players", "primary_broad_position"), Lacks("players", "birth_date"),
     Lacks("teams", "competition"), Lacks("teams", "team_id"), Lacks("teams", "team_name"),
     Lacks("teams", "team_abbreviation"), Lacks("teams", "team_short_name"),
     Lacks("stadia", "competition"), Lacks("stadia", "stadium_name"),
     Lacks("managers", "manager_name"), Lacks("get_referees", "referee_name"),
     Lacks("get_team_xgoals", "team_id"), Lacks("get_team_xpass", "avg_vertical_distance_for"),
     Lacks("get_goalkeeper_xgoals", "shots_faced"), Lacks("get_goalkeeper_goals_added", "player_id"),
     Lacks("get_player_goals_added", "team_id"), Lacks("get_player_xgoals", "player_id"),
     Lacks("get_player_xpass", "count_games"),
     Lacks("get_games", "home_score"), Lacks("get_games", "stadium_id"),
     Lacks("get_games", "game_id"), Lacks("get_games", "last_updated_utc"),
     Lacks("get_game_xgoals", "game_id"), Lacks("get_game_xgoals", "home_goals")}
FaultUniverse == {Raises(call) : call \in ClientCalls} \cup LackChoices
RECURSIVE SetsUpTo(_, _)
SetsUpTo(U, n) ==
    IF n = 0 THEN {{}}
    ELSE LET smaller == SetsUpTo(U, n - 1)
         IN  smaller \cup {F \cup {x} : F \in smaller, x \in U}
FaultSets == SetsUpTo(FaultUniverse, MaxFaults)

\* the clients of the checked runs, each by its world and its faults
Inputs ==
    {[world |-> BaseWorld, faults |-> F] : F \in FaultSets}
    \cup {[world |-> w, faults |-> {}] : w \in GamesWorlds \cup PlayersWorlds \cup StatisticsWorlds}

\* The repository pins no pandas version.  The builds differ in what
\* DataFrame.apply(f, axis=1) does on a frame without rows: the older ones
\* probe f with an empty Series and return a copy of the frame when that
\* fails; the newer ones probe f with a row of missing values and return
\* an empty Series when f returns a scalar.
PandasBuilds == {"probes_empty_series", "probes_missing_row"}

\* the values of the argument of fetch_data
CompetitionArguments == {"uslc", "mls"}

(***************************************************************************)
(* State.                                                                  *)
(***************************************************************************)
VARIABLES
    pc,           \* the step fetch_data is at
    client,       \* self.client
    pandas,       \* the pandas the program runs with
    competition,  \* the parameter (and local variable) competition
    loc,          \* the other local variables of fetch_data, by name
    data,         \* the local variable data, a mapping from keys to relations
    requests,     \* the client requests issued so far, with their competition
    log,          \* the messages given to logging.error so far
    exc,          \* the exception on its way to the handler of line 403
    outcome,      \* how the call ended: "running", "returned" or "raised"
    earlier       \* the calls of fetch_data that returned before this one
vars == <<pc, client, pandas, competition, loc, data, requests, log, exc, outcome, earlier>>

LocalNames ==
    {"players", "teams", "stadium", "mgrs", "refs", "gk_xG", "gk_G_added", "player_G_added",
     "player_xG", "player_xP", "field_players", "goalkeepers", "games", "games_xG"}
EmptyMapping == <<>>

\* the state at the first call of fetch_data, for a client from inputs
InitWith(inputs) ==
    /\ pc = "begin"
    /\ \E i \in inputs : client = Client(i.world, i.faults)
    /\ pandas \in PandasBuilds
    /\ competition \in CompetitionArguments
    /\ loc = [n \in LocalNames |-> Unbound]
    /\ data = EmptyMapping
    /\ requests = <<>>
    /\ log = <<>>
    /\ exc = "none"
    /\ outcome = "running"
    /\ earlier = <<>>

Init == InitWith(Inputs)

(***************************************************************************)
(* The steps of fetch_data.                                                *)
(***************************************************************************)
\* a step that ends normally: the locals it assigned, what it logged and
\* what it requested
Step(to, newloc, messages, asked) ==
    /\ pc' = to
    /\ loc' = newloc
    /\ log' = log \o messages
    /\ requests' = requests \o asked
    /\ UNCHANGED <<client, pandas, earlier, competition, data, exc, outcome>>

\* a step that raises outside every inner try: control goes to line 403,
\* with the locals as the statements before the raising one left them
Abort(e, newloc, messages, asked) ==
    /\ pc' = "except"
    /\ exc' = e.exc
    /\ loc' = newloc
    /\ log' = log \o messages
    /\ requests' = requests \o asked
    /\ UNCHANGED <<client, pandas, earlier, competition, data, outcome>>

\* the last relation of a chain of assignments that was reached before one
\* of them raised; before when the first raised
RECURSIVE LastAssigned(_, _, _)
LastAssigned(before, chain, k) ==
    IF k > Len(chain) \/ IsRaise(chain[k]) THEN before
    ELSE LastAssigned(chain[k], chain, k + 1)

\* self.client.<dimension>[self.client.<dimension>['competition'] == competition].copy()
Filtered(call) == RowsEqual(client[call], "competition", competition)
\* self.client.<call>(competition).copy()
Fetched(call) == client[call]
Request(call, comp) == <<call, comp>>

\* one guarded fetch: the relation, or an empty relation and a message
Guarded(r, message) ==
    [value |-> IF IsRaise(r) THEN EmptyDataFrame ELSE r,
     messages |-> IF IsRaise(r) THEN <<message>> ELSE <<>>]

\* an entry that keeps the argument of the caller
BeginWithArgument ==
    /\ pc = "begin"
    /\ data' = EmptyMapping
    /\ pc' = "players"
    /\ UNCHANGED <<client, pandas, earlier, competition, loc, requests, log, exc, outcome>>

\* lines 181-184
Begin ==
    /\ pc = "begin"
    /\ competition' = COMPETITION
    /\ data' = EmptyMapping
    /\ pc' = "players"
    /\ UNCHANGED <<client, pandas, earlier, loc, requests, log, exc, outcome>>

\* lines 187-191
FetchPlayers ==
    /\ pc = "players"
    /\ LET g == Guarded(Filtered("players"), "Error fetching players data")
       IN  Step("teams", [loc EXCEPT !.players = g.value], g.messages,
                <<Request("players", competition)>>)

\* lines 193-197
FetchTeams ==
    /\ pc = "teams"
    /\ LET g == Guarded(Filtered("teams"), "Error fetching teams data")
       IN  Step("team_statistics", [loc EXCEPT !.teams = g.value], g.messages,
                <<Request("teams", competition)>>)

\* merge_team_statistics, lines 139-168: the table returned, the requests
\* made and whether the except clause of line 165 ran
merge_team_statistics(teams) ==
    LET team_goals_added == Fetched("get_team_goals_added")
        team_xgoals == Fetched("get_team_xgoals")
        team_xpass == Fetched("get_team_xpass")
        fetched == ~IsRaise(team_goals_added) /\ ~IsRaise(team_xgoals) /\ ~IsRaise(team_xpass)
        t1 == MergeStatistic(teams, team_goals_added)
        t2 == MergeStatistic(t1, team_xgoals)
        t3 == MergeStatistic(t2, team_xpass)
    IN  [teams |-> IF ~fetched \/ IsRaise(t1) THEN teams
                   ELSE IF IsRaise(t2) THEN t1
                   ELSE IF IsRaise(t3) THEN t2
                   ELSE WithExpectedColumns(t3, ExpectedColumns),
         asked |-> <<Request("get_team_goals_added", COMPETITION)>>
                   \o (IF IsRaise(team_goals_added) THEN <<>>
                       ELSE <<Request("get_team_xgoals", COMPETITION)>>
                            \o (IF IsRaise(team_xgoals) THEN <<>>
                                ELSE <<Request("get_team_xpass", COMPETITION)>>)),
         messages |-> IF ~fetched \/ IsRaise(t3)
                      THEN <<"Error merging team statistics">> ELSE <<>>]

\* line 200
MergeTeamStatistics ==
    /\ pc = "team_statistics"
    /\ LET m == merge_team_statistics(loc.teams)
       IN  Step("teams_columns", [loc EXCEPT !.teams = m.teams], m.messages, m.asked)

\* lines 203-218
TeamsColumnsStep ==
    /\ pc = "teams_columns"
    /\ LET t1 == AsCategory(loc.teams, "team_name")
           t2 == AsCategory(t1, "team_abbreviation")
           t == SelectColumns(t2, TeamsColumns)
       IN  IF IsRaise(t)
           THEN Abort(t, [loc EXCEPT !.teams = LastAssigned(loc.teams, <<t1, t2, t>>, 1)],
                      <<>>, <<>>)
           ELSE Step("stadium", [loc EXCEPT !.teams = t], <<>>, <<>>)

\* lines 221-225
FetchStadium ==
    /\ pc = "stadium"
    /\ LET g == Guarded(Filtered("stadia"), "Error fetching stadium data")
       IN  Step("mgrs", [loc EXCEPT !.stadium = g.value], g.messages,
                <<Request("stadia", competition)>>)

\* lines 228-235
FetchManagers ==
    /\ pc = "mgrs"
    /\ LET g == Guarded(Filtered("managers"), "Error fetching managers data")
           m == AsCategory(g.value, "manager_name")
           asked == <<Request("managers", competition)>>
       IN  IF IsRaise(m) THEN Abort(m, [loc EXCEPT !.mgrs = g.value], g.messages, asked)
           ELSE Step("refs", [loc EXCEPT !.mgrs = m], g.messages, asked)

\* lines 238-245
FetchReferees ==
    /\ pc = "refs"
    /\ LET g == Guarded(Fetched("get_referees"), "Error fetching referees data")
           r == AsCategory(g.value, "referee_name")
           asked == <<Request("get_referees", competition)>>
       IN  IF IsRaise(r) THEN Abort(r, [loc EXCEPT !.refs = g.value], g.messages, asked)
           ELSE Step("goalkeeper_facts", [loc EXCEPT !.refs = r], g.messages, asked)

\* lines 248-259
FetchGoalkeeperFacts ==
    /\ pc = "goalkeeper_facts"
    /\ LET x == Guarded(add_team_names(add_player_names(Fetched("get_goalkeeper_xgoals"),
                                                        loc.players), loc.teams),
                        "Error processing goalkeeper xGoals")
           a == Guarded(Fetched("get_goalkeeper_goals_added"),
                        "Error fetching goalkeeper goals added")
       IN  Step("player_facts", [loc EXCEPT !.gk_xG = x.value, !.gk_G_added = a.value],
                x.messages \o a.messages,
                <<Request("get_goalkeeper_xgoals", competition),
                  Request("get_goalkeeper_goals_added", competition)>>)

\* lines 262-278
FetchPlayerFacts ==
    /\ pc = "player_facts"
    /\ LET a == Guarded(Fetched("get_player_goals_added"), "Error fetching player goals added")
           x == Guarded(Fetched("get_player_xgoals"), "Error fetching player xGoals")
           q == Guarded(Fetched("get_player_xpass"), "Error fetching player xPass")
       IN  Step("merge_player_facts",
                [loc EXCEPT !.player_G_added = a.value, !.player_xG = x.value,
                            !.player_xP = q.value],
                a.messages \o x.messages \o q.messages,
                <<Request("get_player_goals_added", competition),
                  Request("get_player_xgoals", competition),
                  Request("get_player_xpass", competition)>>)

\* the body of the loop of lines 281-286: players after one fact relation
MergePlayerFact(players, df) ==
    LET merged == WithoutDupColumns(Merge(players, df, PLAYER_ID, PLAYER_ID, "left", "", "_dup"))
    IN  [value |-> IF IsRaise(merged) THEN players ELSE merged,
         messages |-> IF IsRaise(merged) THEN <<"Error merging player data">> ELSE <<>>]

\* lines 281-286
MergePlayerFacts ==
    /\ pc = "merge_player_facts"
    /\ LET m1 == MergePlayerFact(loc.players, loc.player_G_added)
           m2 == MergePlayerFact(m1.value, loc.player_xG)
           m3 == MergePlayerFact(m2.value, loc.player_xP)
       IN  Step("players_categories", [loc EXCEPT !.players = m3.value],
                m1.messages \o m2.messages \o m3.messages, <<>>)

RECURSIVE AsCategories(_, _, _)
AsCategories(T, columns, k) ==
    IF k > Len(columns) THEN T ELSE AsCategories(AsCategory(T, columns[k]), columns, k + 1)

\* T after the conversions of columns[k], ... that come before the first
\* one that raises
RECURSIVE CategoriesSet(_, _, _)
CategoriesSet(T, columns, k) ==
    IF k > Len(columns) \/ IsRaise(AsCategory(T, columns[k])) THEN T
    ELSE CategoriesSet(AsCategory(T, columns[k]), columns, k + 1)

\* lines 289-293
PlayersCategories ==
    /\ pc = "players_categories"
    /\ LET p == AsCategories(loc.players, PlayersCategorical, 1)
       IN  IF IsRaise(p)
           THEN Abort(p, [loc EXCEPT !.players = CategoriesSet(loc.players, PlayersCategorical, 1)],
                      <<>>, <<>>)
           ELSE Step("expand_players", [loc EXCEPT !.players = p], <<>>, <<>>)

\* lines 296-299
ExpandPlayers ==
    /\ pc = "expand_players"
    /\ LET p == add_team_names(Explode(loc.players, TEAM_ID), loc.teams)
       IN  IF IsRaise(p)
           THEN Step("reorganize_players", loc,
                     <<"Error enhancing player data with team information">>, <<>>)
           ELSE Step("reorganize_players", [loc EXCEPT !.players = p], <<>>, <<>>)

\* lines 302-314
ReorganizePlayers ==
    /\ pc = "reorganize_players"
    /\ LET p == SelectColumns(loc.players, PlayersColumns)
       IN  IF IsRaise(p)
           THEN Step("split_players", loc, <<"Error reorganizing player data">>, <<>>)
           ELSE Step("split_players", [loc EXCEPT !.players = p], <<>>, <<>>)

\* line 317
FieldPlayersOf(players) == RowsNotEqual(players, "primary_broad_position", "GK")
\* line 318
GoalkeepersOf(players) == RowsEqual(players, "primary_broad_position", "GK")

\* lines 317-318
SplitPlayers ==
    /\ pc = "split_players"
    /\ LET f == FieldPlayersOf(loc.players)
           g == GoalkeepersOf(loc.players)
       IN  IF IsRaise(f) THEN Abort(f, loc, <<>>, <<>>)
           ELSE IF IsRaise(g) THEN Abort(g, [loc EXCEPT !.field_players = f], <<>>, <<>>)
           ELSE Step("goalkeepers", [loc EXCEPT !.field_players = f, !.goalkeepers = g],
                     <<>>, <<>>)

\* the body of the loop of lines 320-322
MergeGoalkeeperFact(goalkeepers, df) ==
    WithoutDupColumns(Merge(goalkeepers, df, PLAYER_ID, PLAYER_ID, "left", "", DUPLICATE_SUFFIX))

\* lines 320-336
MergeGoalkeeperFacts ==
    /\ pc = "goalkeepers"
    /\ LET g1 == MergeGoalkeeperFact(loc.goalkeepers, loc.gk_xG)
           g2 == MergeGoalkeeperFact(g1, loc.gk_G_added)
           g == SelectColumns(g2, GoalkeepersColumns)
       IN  IF IsRaise(g)
           THEN Abort(g, [loc EXCEPT
                             !.goalkeepers = LastAssigned(loc.goalkeepers, <<g1, g2, g>>, 1)],
                      <<>>, <<>>)
           ELSE Step("games", [loc EXCEPT !.goalkeepers = g], <<>>, <<>>)

\* lines 353-356: the four derived columns, row by row.  On a frame with
\* no rows, line 353 gets from apply a copy of the frame and raises
\* ValueError on assigning it to a column, unless pandas probes
\* calculate_result with a row of missing values and the row has both
\* scores: then apply returns an empty Series and the columns are added.
WithResults(games, build) ==
    IF ~IsTable(games) THEN Bad(games)
    ELSE IF games.rows = <<>> /\ ~(/\ build = "probes_missing_row"
                                   /\ {"home_score", "away_score"} \subseteq games.cols)
    THEN RaiseOf("ValueError")
    ELSE IF ~({"home_score", "away_score"} \subseteq games.cols) THEN RaiseOf("KeyError")
    ELSE LET derived == {"result_home", "points_home", "result_away", "points_away"}
             cols == games.cols \cup derived
             value(r, c) ==
                 CASE c = "result_home" -> calculate_result(r)
                   [] c = "points_home" -> calculate_points(calculate_result(r))
                   [] c = "result_away" -> away_result(calculate_result(r))
                   [] c = "points_away" -> calculate_points(away_result(calculate_result(r)))
                   [] OTHER -> r[c]
         IN  [cols |-> cols,
              count |-> [c \in cols |-> IF c \in games.cols THEN games.count[c] ELSE 1],
              cat |-> games.cat \ derived,
              rows |-> [i \in 1..Len(games.rows) |-> [c \in cols |-> value(games.rows[i], c)]]]

\* teams[['team_id', 'team_name', 'team_abbreviation']], lines 345-346
TeamLabels(teams) == SelectColumns(teams, <<"team_id", "team_name", "team_abbreviation">>)
\* mgrs[['manager_id', 'manager_name']], lines 349-350
ManagerLabels(mgrs) == SelectColumns(mgrs, <<"manager_id", "manager_name">>)
\* how the merges of lines 345-350 join: no how= is given, pandas joins inner
GamesJoin == "inner"

\* lines 339-358
ProcessGames ==
    /\ pc = "games"
    /\ LET g0 == Fetched("get_games")
           g1 == add_stadium_names(g0, loc.stadium)
           g2 == add_referee_names(g1, loc.refs)
           g3 == Merge(g2, TeamLabels(loc.teams), HOME_TEAM_ID, TEAM_ID, GamesJoin, "_x", "_y")
           g4 == Merge(g3, TeamLabels(loc.teams), AWAY_TEAM_ID, TEAM_ID, GamesJoin,
                       "_home", "_away")
           g5 == Merge(g4, ManagerLabels(loc.mgrs), HOME_MANAGER_ID, MANAGER_ID, GamesJoin,
                       "_x", "_y")
           g6 == Merge(g5, ManagerLabels(loc.mgrs), AWAY_MANAGER_ID, MANAGER_ID, GamesJoin,
                       "_home", "_away")
           g7 == WithResults(g6, pandas)
       IN  Step("game_xgoals",
                [loc EXCEPT !.games = LastAssigned(loc.games, <<g0, g1, g2, g3, g4, g5, g6, g7>>, 1)],
                IF IsRaise(g7) THEN <<"Error processing games data">> ELSE <<>>,
                <<Request("get_games", COMPETITION)>>)

\* lines 361-366
MergeGameXgoals ==
    /\ pc = "game_xgoals"
    /\ LET x == Fetched("get_game_xgoals")
           m == Merge(loc.games, x, GAME_ID, GAME_ID, "left", "", "_xG")
           asked == <<Request("get_game_xgoals", competition)>>
       IN  IF IsRaise(x) \/ IsRaise(m)
           THEN Step("match_name", [loc EXCEPT !.games_xG = EmptyDataFrame],
                     <<"Error merging game xGoals data">>, asked)
           ELSE Step("match_name", [loc EXCEPT !.games_xG = x, !.games = m], <<>>, asked)

\* line 370: the match label of every row.  Adding a string to a column of
\* category dtype raises TypeError.
WithMatchName(games) ==
    IF ~IsTable(games) THEN Bad(games)
    ELSE IF ~({"team_abbreviation_home", "team_abbreviation_away"} \subseteq games.cols)
    THEN RaiseOf("KeyError")
    ELSE IF {"team_abbreviation_home", "team_abbreviation_away"} \cap games.cat # {}
    THEN RaiseOf("TypeError")
    ELSE LET cols == games.cols \cup {"match_name"}
             label(r) ==
                 IF r["team_abbreviation_home"] = NaN \/ r["team_abbreviation_away"] = NaN
                 THEN NaN
                 ELSE r["team_abbreviation_home"] \o " v " \o r["team_abbreviation_away"]
         IN  [cols |-> cols,
              count |-> [c \in cols |-> IF c \in games.cols THEN games.count[c] ELSE 1],
              cat |-> games.cat \ {"match_name"},
              rows |-> [i \in 1..Len(games.rows) |->
                          [c \in cols |-> IF c = "match_name" THEN label(games.rows[i])
                                          ELSE games.rows[i][c]]]]

\* lines 369-373
MatchName ==
    /\ pc = "match_name"
    /\ LET n == WithMatchName(loc.games)
           d == DropColumns(n, GamesDropped)
       IN  Step("select_games",
                [loc EXCEPT !.games = LastAssigned(loc.games, <<n, d>>, 1)],
                IF IsRaise(d) THEN <<"Error creating match names or dropping columns">>
                ELSE <<>>,
                <<>>)

\* lines 376-389
SelectGames ==
    /\ pc = "select_games"
    /\ LET g == SelectColumns(loc.games, GamesColumns)
       IN  IF IsRaise(g)
           THEN Step("compile", loc, <<"Error selecting and renaming columns in games data">>,
                     <<>>)
           ELSE Step("compile", [loc EXCEPT !.games = g], <<>>, <<>>)

\* a mapping filled key by key that keeps the keys filled before a failure
CompiledKeyByKey(l) == [k \in {n \in DataKeys : IsTable(l[n])} |-> l[k]]

\* the dictionary display of lines 392-401: every value is evaluated before
\* the dictionary exists, and reading an unassigned local raises NameError
CompiledData(l) ==
    IF \E k \in DataKeys : ~IsTable(l[k]) THEN RaiseOf("NameError")
    ELSE [k \in DataKeys |-> l[k]]

\* lines 392-401
Compile ==
    /\ pc = "compile"
    /\ LET d == CompiledData(loc)
       IN  IF IsRaise(d) THEN Abort(d, loc, <<>>, <<>>)
           ELSE /\ data' = d
                /\ pc' = "return"
                /\ UNCHANGED <<client, pandas, earlier, competition, loc, requests, log, exc, outcome>>

\* a handler that catches KeyError alone
CaughtKeyErrorOnly(kind) == kind = "KeyError"

\* the exceptions the clause of line 403 catches: except Exception
CaughtAtTopLevel(kind) == kind \in ExceptionKinds

\* lines 403-404
TopLevelExcept ==
    /\ pc = "except"
    /\ IF CaughtAtTopLevel(exc)
       THEN /\ log' = Append(log, "General error in fetch_data")
            /\ pc' = "return"
            /\ exc' = "none"
            /\ UNCHANGED outcome
       ELSE /\ outcome' = "raised"
            /\ pc' = "done"
            /\ UNCHANGED <<log, exc>>
    /\ UNCHANGED <<client, pandas, earlier, competition, loc, data, requests>>

\* line 406
Return ==
    /\ pc = "return"
    /\ outcome' = "returned"
    /\ pc' = "done"
    /\ UNCHANGED <<client, pandas, earlier, competition, loc, data, requests, log, exc>>

Next ==
    \/ Begin
    \/ FetchPlayers
    \/ FetchTeams
    \/ MergeTeamStatistics
    \/ TeamsColumnsStep
    \/ FetchStadium
    \/ FetchManagers
    \/ FetchReferees
    \/ FetchGoalkeeperFacts
    \/ FetchPlayerFacts
    \/ MergePlayerFacts
    \/ PlayersCategories
    \/ ExpandPlayers
    \/ ReorganizePlayers
    \/ SplitPlayers
    \/ MergeGoalkeeperFacts
    \/ ProcessGames
    \/ MergeGameXgoals
    \/ MatchName
    \/ SelectGames
    \/ Compile
    \/ TopLevelExcept
    \/ Return

Spec == Init /\ [][Next]_vars

\* the caller calls fetch_data once more on the same processor, with the
\* same client, after a call returned: the parameters and locals of the new
\* call are fresh, and what the earlier call requested and returned is kept
\* with the argument of the call that follows it
CallAgain ==
    /\ pc = "done"
    /\ outcome = "returned"
    /\ earlier = <<>>
    /\ \E argument \in CompetitionArguments :
           /\ competition' = argument
           /\ earlier' = <<[requests |-> requests, result |-> data, followed_by |-> argument]>>
    /\ pc' = "begin"
    /\ loc' = [n \in LocalNames |-> Unbound]
    /\ data' = EmptyMapping
    /\ requests' = <<>>
    /\ log' = <<>>
    /\ outcome' = "running"
    /\ UNCHANGED <<client, pandas, exc>>

TwoCallsNext == Next \/ CallAgain

\* the clients of the runs with two calls: at most MaxFaultsTwoCalls faults
TwoCallsInit == InitWith({i \in Inputs : Cardinality(i.faults) <= MaxFaultsTwoCalls})

TwoCallsSpec == TwoCallsInit /\ [][TwoCallsNext]_vars

(***************************************************************************)
(* Properties.                                                             *)
(***************************************************************************)
\* the call `call` succeeds with a relation that has its expected columns
WellFormed(call) == IsTable(client[call]) /\ ClientColumns[call] \subseteq client[call].cols
Returned == pc = "done" /\ outcome = "returned"
Logged(message) == \E i \in 1..Len(log) : log[i] = message
Requested(call) == \E i \in 1..Len(requests) : requests[i][1] = call

\* the steps of fetch_data in the order of the source
StepOrder ==
    <<"begin", "players", "teams", "team_statistics", "teams_columns", "stadium", "mgrs", "refs",
      "goalkeeper_facts", "player_facts", "merge_player_facts", "players_categories",
      "expand_players", "reorganize_players", "split_players", "goalkeepers", "games",
      "game_xgoals", "match_name", "select_games", "compile", "except", "return", "done">>
Position(label) == CHOOSE i \in 1..Len(StepOrder) : StepOrder[i] = label

\* C1: fetch_data never raises to its caller.  Whatever client calls raise
\* and whatever columns the relations lack, every step moves forward in the
\* source (so the call ends), no step lets an exception leave fetch_data,
\* and the call ends by returning a mapping.
C1_NeverRaises ==
    [][/\ outcome' # "raised"
       /\ Position(pc') > Position(pc)
       /\ pc' = "done" => outcome' = "returned" /\ DOMAIN data' \subseteq DataKeys]_vars

\* a run in which a client call raised, an exception reached the handler of
\* line 403 and the call returned
C1_Witness ==
    /\ Returned
    /\ \E call \in ClientCalls : IsRaise(client[call])
    /\ Logged("General error in fetch_data")

\* C2: when get_games raises and every other call succeeds with a
\* well-formed relation, the returned mapping has the key games bound to an
\* empty relation and the other seven keys populated.
C2_GamesEmptyOthersPopulated ==
    (/\ Returned
     /\ IsRaise(client["get_games"])
     /\ \A call \in ClientCalls \ {"get_games"} : WellFormed(call))
    => /\ DOMAIN data = DataKeys
       /\ data["games"].rows = <<>>
       /\ \A k \in DataKeys \ {"games"} : data[k].rows # <<>>

TeamStatisticCalls == {"get_team_goals_added", "get_team_xgoals", "get_team_xpass"}

\* C3: when exactly one of the three team statistic requests raises (and
\* every other call succeeds with a well-formed relation), fetch_data does
\* not abort: it returns a non-empty mapping whose teams entry holds every
\* row of the base team fetch.
C3_OneStatisticFailsNoAbort ==
    (/\ Returned
     /\ Cardinality({call \in TeamStatisticCalls : IsRaise(client[call])}) = 1
     /\ \A call \in ClientCalls :
            WellFormed(call) \/ (call \in TeamStatisticCalls /\ IsRaise(client[call])))
    => /\ DOMAIN data = DataKeys
       /\ Len(data["teams"].rows) = Len(RowsEqual(client["teams"], "competition", COMPETITION).rows)

\* the dimensions, by the client attribute or method that fetches them, and
\* the key of each in the result
Dimensions == {"players", "teams", "stadia", "managers", "get_referees"}
DimensionKey ==
    [players |-> "players", teams |-> "teams", stadia |-> "stadium", managers |-> "mgrs",
     get_referees |-> "refs"]

\* C4: dimension fetches are independent.  When the fetch of one dimension
\* fails (here: its client call raises and every other call succeeds with a
\* well-formed relation), that dimension is an empty relation in the result,
\* the pipeline is not aborted and every other dimension was requested.
C4_DimensionsIndependent ==
    \A d \in Dimensions :
        (/\ Returned
         /\ IsRaise(client[d])
         /\ \A call \in ClientCalls \ {d} : WellFormed(call))
        => /\ \A other \in Dimensions : Requested(other)
           /\ DOMAIN data = DataKeys
           /\ data[DimensionKey[d]].rows = <<>>

\* C5: the mapping is all or nothing.  At every point of a run, and so in
\* what is returned, data is empty or has exactly the eight keys.
C5_AllOrNothing == DOMAIN data = {} \/ DOMAIN data = DataKeys

\* a run that had assigned the dimension tables, failed to assign games and
\* returned the empty mapping
C5_Witness ==
    /\ Returned
    /\ data = EmptyMapping
    /\ \A n \in LocalNames \ {"games"} : IsTable(loc[n])
    /\ ~IsTable(loc.games)
    /\ Logged("Error selecting and renaming columns in games data")

\* the rows of the games table once the derived fields are computed
DerivedGameRows ==
    IF IsTable(loc.games) /\ "result_home" \in loc.games.cols THEN loc.games.rows ELSE <<>>

\* C6: for every game row with derived fields, result_home and result_away
\* are complementary (win and loss in some order when the scores differ,
\* both draw when they are equal) and points_home + points_away is 3 when
\* the scores differ and 2 when they are equal.
C6_ResultsComplementary ==
    \A i \in 1..Len(DerivedGameRows) :
        LET r == DerivedGameRows[i]
        IN  /\ r["home_score"] # r["away_score"] =>
                   /\ {r["result_home"], r["result_away"]} = {"win", "loss"}
                   /\ r["points_home"] + r["points_away"] = 3
            /\ r["home_score"] = r["away_score"] =>
                   /\ r["result_home"] = "draw" /\ r["result_away"] = "draw"
                   /\ r["points_home"] + r["points_away"] = 2

\* a returned games table with a decided game and a drawn game
C6_Witness ==
    /\ Returned /\ DOMAIN data = DataKeys
    /\ "result_home" \in data["games"].cols
    /\ \E i, j \in 1..Len(data["games"].rows) :
           /\ data["games"].rows[i]["home_score"] # data["games"].rows[i]["away_score"]
           /\ data["games"].rows[j]["home_score"] = data["games"].rows[j]["away_score"]

\* the points of a result, as the specification gives them
PointsOf(result) == CASE result = "win" -> 3 [] result = "draw" -> 1 [] result = "loss" -> 0

\* C7: for all scores, result_home is win iff home_score > away_score, loss
\* iff home_score < away_score and draw iff they are equal; the points of a
\* side are 3 for win, 1 for draw, 0 for loss; and a game that ended 2-1 has
\* result_home win, points_home 3, result_away loss, points_away 0.
C7_ResultAndPoints ==
    \A i \in 1..Len(DerivedGameRows) :
        LET r == DerivedGameRows[i]
        IN  /\ r["result_home"] = "win" <=> r["home_score"] > r["away_score"]
            /\ r["result_home"] = "loss" <=> r["home_score"] < r["away_score"]
            /\ r["result_home"] = "draw" <=> r["home_score"] = r["away_score"]
            /\ r["result_away"] \in {"win", "draw", "loss"}
            /\ r["points_home"] = PointsOf(r["result_home"])
            /\ r["points_away"] = PointsOf(r["result_away"])
            /\ r["home_score"] = 2 /\ r["away_score"] = 1 =>
                   /\ r["result_home"] = "win" /\ r["points_home"] = 3
                   /\ r["result_away"] = "loss" /\ r["points_away"] = 0

\* a returned games table with a game that ended 2-1, a draw and an away win
C7_Witness ==
    /\ Returned /\ DOMAIN data = DataKeys
    /\ "points_away" \in data["games"].cols
    /\ \E i, j \in 1..Len(data["games"].rows) :
           /\ data["games"].rows[i]["home_score"] = 2 /\ data["games"].rows[i]["away_score"] = 1
           /\ data["games"].rows[j]["home_score"] < data["games"].rows[j]["away_score"]

\* C8: the table merge_team_statistics returns has no column whose name
\* ends with the duplicate suffix, whatever column names the statistic
\* relations share with the team table or with each other.
C8_NoDuplicateSuffix ==
    pc = "teams_columns" => \A col \in loc.teams.cols : ~EndsWithDup(col)

\* how often the row r, seen on the columns cols, occurs in rows
\* how many rows of T hold, in every column with a label of cols, the cell
\* the row r has under that label
Occurrences(T, r, cols) ==
    Cardinality({i \in 1..Len(T.rows) :
                    \A c \in cols :
                        \A k \in 1..T.count[c] : Cells(T, T.rows[i], c)[k] = r[c]})

\* C9: in every non-empty result, field_players and goalkeepers partition
\* players: every row of players occurs as often in the two together as in
\* players, in goalkeepers when its primary_broad_position is GK and in
\* field_players otherwise, so the goalkeeper joins neither lose nor
\* duplicate a row.
C9_PlayersPartitioned ==
    (Returned /\ DOMAIN data = DataKeys) =>
        LET cols == data["players"].cols \cap data["goalkeepers"].cols
            players == data["players"].rows
        IN  \A i \in 1..Len(players) :
                LET r == players[i]
                    inField == Occurrences(data["field_players"], r, cols)
                    inKeepers == Occurrences(data["goalkeepers"], r, cols)
                IN  /\ inField + inKeepers = Occurrences(data["players"], r, cols)
                    /\ r["primary_broad_position"] = "GK" => inField = 0
                    /\ r["primary_broad_position"] # "GK" => inKeepers = 0

\* the cell of column col of the one row of the team table with team_id t
TeamCell(teams, t, col) ==
    LET i == CHOOSE k \in 1..Len(teams.rows) : teams.rows[k][TEAM_ID] = t
    IN  teams.rows[i][col]

\* the step of lines 296-299 when it does not raise
Expanded ==
    pc = "expand_players" /\ pc' = "reorganize_players" /\ log' = log

\* the rows of post that stem from the row r
RowsFrom(post, r) == SelectSeq(post.rows, LAMBDA x : x[PLAYER_ID] = r[PLAYER_ID])

\* C10 as stated: a player whose team list is [A, B] yields two rows, one
\* per team, identical except in team_id, team_name and team_abbreviation,
\* each with the name and the abbreviation of its team; a player with n
\* listed teams yields n rows.
C10_AsStated ==
    [][Expanded =>
        \A i \in 1..Len(loc.players.rows) :
            LET r == loc.players.rows[i]
                q == ListElems(r[TEAM_ID])
                mine == RowsFrom(loc'.players, r)
            IN  IsList(r[TEAM_ID]) =>
                    /\ Len(mine) = Len(q)
                    /\ {"team_name", "team_abbreviation"} \subseteq loc'.players.cols
                    /\ \A j \in 1..Len(mine) :
                           /\ mine[j][TEAM_ID] = q[j]
                           /\ mine[j]["team_name"] = TeamCell(loc.teams, q[j], "team_name")
                           /\ mine[j]["team_abbreviation"]
                                  = TeamCell(loc.teams, q[j], "team_abbreviation")
                           /\ \A c \in loc.players.cols \ {TEAM_ID} : mine[j][c] = r[c]]_vars

\* C10 as amended: a player whose team list is [A, B] yields two rows, one
\* per team, identical except in team_id and team_name, each with the name
\* of its team; team_name is the only column added; a player with n >= 1
\* listed teams yields n rows and one with an empty list yields one row
\* whose team_id and team_name are missing.
C10_ExpansionPerTeam ==
    [][Expanded =>
        /\ loc'.players.cols = loc.players.cols \cup {"team_name"}
        /\ \A i \in 1..Len(loc.players.rows) :
            LET r == loc.players.rows[i]
                q == ListElems(r[TEAM_ID])
                mine == RowsFrom(loc'.players, r)
            IN  IsList(r[TEAM_ID]) =>
                    /\ q # <<>> =>
                          /\ Len(mine) = Len(q)
                          /\ \A j \in 1..Len(mine) :
                                 /\ mine[j][TEAM_ID] = q[j]
                                 /\ mine[j]["team_name"] = TeamCell(loc.teams, q[j], "team_name")
                    /\ q = <<>> =>
                          /\ Len(mine) = 1
                          /\ mine[1][TEAM_ID] = NaN /\ mine[1]["team_name"] = NaN
                    /\ \A j \in 1..Len(mine) :
                           \A c \in loc.players.cols \ {TEAM_ID} : mine[j][c] = r[c]]_vars

\* the expansion has given a player of two teams one row for each
C10_Witness ==
    /\ pc = "reorganize_players"
    /\ ~Logged("Error enhancing player data with team information")
    /\ \E i, j \in 1..Len(loc.players.rows) :
           /\ loc.players.rows[i][PLAYER_ID] = loc.players.rows[j][PLAYER_ID]
           /\ loc.players.rows[i][TEAM_ID] = "A" /\ loc.players.rows[i]["team_name"] = "Team A"
           /\ loc.players.rows[j][TEAM_ID] = "B" /\ loc.players.rows[j]["team_name"] = "Team B"
           /\ \E k \in 1..Len(loc.player_G_added.rows) :
                  /\ loc.player_G_added.rows[k][PLAYER_ID] = loc.players.rows[i][PLAYER_ID]
                  /\ loc.player_G_added.rows[k][TEAM_ID] = ListCell(<<"A", "B">>)

\* the rows of the relation t whose column col holds the value v
RowsWith(t, col, v) == {i \in 1..Len(t.rows) : t.rows[i][col] = v}
\* the values of the column col of the rows of the competition in a dimension
KeysOf(call, col) ==
    {client[call].rows[i][col] : i \in RowsWith(client[call], "competition", COMPETITION)}

\* C11: when every client call succeeds with a well-formed relation, every
\* game returned by get_games has a row in the returned games table; a game
\* whose stadium_id, referee_id, home or away team_id, or home or away
\* manager_id matches no dimension row is kept, and its stadium or referee
\* name is then missing.
C11_GamesPreserved ==
    (Returned /\ \A call \in ClientCalls : WellFormed(call))
    => /\ DOMAIN data = DataKeys
       /\ \A i \in 1..Len(client["get_games"].rows) :
              LET g == client["get_games"].rows[i]
              IN  \E j \in RowsWith(data["games"], GAME_ID, g[GAME_ID]) :
                      /\ g[STADIUM_ID] \notin KeysOf("stadia", STADIUM_ID)
                             => data["games"].rows[j]["stadium_name"] = NaN
                      /\ g[REFEREE_ID] \notin
                             {client["get_referees"].rows[k][REFEREE_ID] :
                                 k \in 1..Len(client["get_referees"].rows)}
                             => data["games"].rows[j]["referee_name"] = NaN

\* the derived fields of a game row
DerivedFields == {"result_home", "points_home", "result_away", "points_away"}

\* C12: when the stadium-name join fails (the stadium fetch failed or its
\* relation lacks a column) while get_games and every other call succeed
\* with well-formed relations, the later steps of game enrichment still
\* run: the returned games table has result_home, points_home, result_away
\* and points_away.
C12_GameStepsIndependent ==
    (/\ Returned
     /\ ~WellFormed("stadia")
     /\ \A call \in ClientCalls \ {"stadia"} : WellFormed(call)
     /\ client["get_games"].rows # <<>>)
    => /\ DOMAIN data = DataKeys
       /\ DerivedFields \subseteq data["games"].cols

\* C13: fetch_data ignores its competition argument.  Every client request
\* carries COMPETITION as its competition identifier or filter, whatever
\* the argument; and a second call on the same client, with any argument,
\* issues the same sequence of requests and returns the same mapping as the
\* call before it, whatever the argument of that one was.
C13_ArgumentIgnored ==
    /\ \A i \in 1..Len(requests) : requests[i][2] = COMPETITION
    /\ (Returned /\ earlier # <<>>)
           => /\ requests = earlier[1].requests
              /\ data = earlier[1].result

\* a second call with an argument other than COMPETITION that returned a
\* populated mapping after a first call did
C13_Witness ==
    /\ Returned
    /\ earlier # <<>>
    /\ earlier[1].followed_by # COMPETITION
    /\ DOMAIN data = DataKeys
    /\ Len(requests) = Cardinality(ClientCalls)

====
